---- MODULE Spec2Model ----
(***************************************************************************)
(* State-machine model of DSSDriver (src/backend.py): the compiler that    *)
(* turns the network tables into OpenDSS commands.                         *)
(*                                                                         *)
(* Numbers with decimals (kV, kVA) are integers in hundredths: 12.7 kV is  *)
(* 1270.  A text command is a record of the attributes the f-string        *)
(* writes; a name or a phase suffix is the sequence of its parts.          *)
(***************************************************************************)
EXTENDS Integers, Sequences, FiniteSets, TLC

VARIABLES
    data,           \* self.data: the tables (rows) and which of them are present
    gis_data,       \* self.gis_data: the annotations written by the stages
    house_data,     \* content of Res_load_data_30min_res.npy
    com_data,       \* content of Com_load_data_30min_res.npy
    mt,             \* output sequence of np.random after seed(100)
    rngpos,         \* number of draws made since the last seed(100)
    pc,             \* the method that runs ("idle": none)
    top,            \* the method the user called
    arg,            \* selected_day argument of the user's call
    i,              \* position of the running for-loop in its table
    cmds,           \* commands submitted through dss_text.Command in this call
    daily,          \* 'daily' properties set through ActiveElement in this call
    err,            \* exception that ended the user's call ("none": returned)
    selected_day,   \* local selected_day of lv_load_mod
    load_profile,   \* index of the profile drawn last (load_profile_com / _res)
    draws,          \* draws made for the load being processed
    ret,            \* value returned by lv_load_mod (<<>>: none)
    session,        \* number of the compile session running in this process
    first           \* commands the first session of the process submitted

vars == <<data, gis_data, house_data, com_data, mt, rngpos, pc, top, arg, i,
          cmds, daily, err, selected_day, load_profile, draws, ret, session,
          first>>

-----------------------------------------------------------------------------
(* Bounds of the model *)

MaxRows == 2        \* rows of the table a family of inputs varies
MaxPool == 2        \* profiles of a pool
Period == 2         \* period of the modelled random sequence
MaxDraws == 3       \* the per-load draw counter saturates here

(* Program constants *)

DaysInYear == 365   \* np.random.randint(0, 365)
KvReg == 1270       \* kv = 12.7
NtNum == 10         \* nt = 10/100
NtDen == 100

-----------------------------------------------------------------------------
(* Helpers *)

Min(a, b) == IF a <= b THEN a ELSE b

RECURSIVE MaxOf(_)
MaxOf(s) ==
    IF Len(s) = 1 THEN s[1]
    ELSE LET m == MaxOf(Tail(s)) IN IF s[1] >= m THEN s[1] ELSE m

SeqsUpTo(S, n) == UNION {[1..k -> S] : k \in 0..n}

Letters == {"R", "W", "B"}

(* itertools.permutations(['R','W','B'], k), each joined into one key *)
permutations(S, k) ==
    {p \in [1..k -> S] : \A a, b \in 1..k : a # b => p[a] # p[b]}

three_ph_combi == permutations(Letters, 3)
two_ph_combi == permutations(Letters, 2)
one_ph_combi == permutations(Letters, 1)

(* the letters B and W given the same index *)
LetterNum_collide ==
    [c \in Letters |-> CASE c = "R" -> 1 [] c = "W" -> 2 [] c = "B" -> 2]

LetterNum == [c \in Letters |-> CASE c = "R" -> 1 [] c = "W" -> 2 [] c = "B" -> 3]

(* the table with the digits joined in the reverse order of the letters *)
char_to_num_reversed ==
    [key \in three_ph_combi \cup two_ph_combi \cup one_ph_combi |->
        [j \in 1..Len(key) |-> LetterNum[key[Len(key) + 1 - j]]]]

(* the dot-joined digits are kept as the sequence of the digits *)
char_to_num ==
    [key \in three_ph_combi \cup two_ph_combi \cup one_ph_combi |->
        [j \in 1..Len(key) |-> LetterNum[key[j]]]]

(* np.round(nt * float(kva1) / (1 + nt), 2) on hundredths: x*nt/(1+nt) is   *)
(* x*NtNum/(NtDen+NtNum), rounded to the nearest hundredth (no tie occurs   *)
(* for the odd denominator 11 the fraction reduces to)                      *)
kVAtrafBy(x) == (2 * x * NtNum + (NtDen + NtNum)) \div (2 * (NtDen + NtNum))

(* the element names compared as they are written *)
Lower_identity(s) == s

(* str.lower() on the element names of the tables *)
Lower(s) ==
    CASE s = "DELETE" -> "delete"
      [] s = "Delete" -> "delete"
      [] OTHER -> s

-----------------------------------------------------------------------------
(* Commands *)

NoName == <<>>

Cmd(stage, kind, name, rec) ==
    [stage |-> stage, kind |-> kind, name |-> name, rec |-> rec,
     phases |-> 0, windings |-> 0, suffix |-> <<>>, conns |-> <<>>,
     kVs |-> <<>>, kVAs |-> <<>>, numtaps |-> 0,
     ref |-> NoName, normamp |-> 0, pmult |-> <<>>,
     status |-> "", enabled |-> TRUE]

-----------------------------------------------------------------------------
(* The tables of self.data.  A row holds the columns the compiler reads;   *)
(* Substation_ID, Line_Number, Element_ID and the load and line names are  *)
(* the row's position, so they are unique within a table, as the pandas    *)
(* index is.                                                               *)

TableNames ==
    {"mv_net_txs", "linecodes", "lines", "mvcaps", "mvtx", "lvtx",
     "lv_lines", "lv_loads"}

RWB == <<"R", "W", "B">>

TxRow(conn, kv1, kv2, kva1, kva2) ==
    [Conn_Type |-> conn, kvs_primary |-> kv1, kvs_secondary |-> kv2,
     kvas_primary |-> kva1, kvas_secondary |-> kva2, wdg1_numtaps |-> 33,
     Connection_Primary |-> "Delta", Connection_Secondary |-> "Wye"]

(* rows with equal rated voltages: autotransformer regulators *)
RegRows ==
    {TxRow(RWB, 1270, 1270, 5000, 5000), TxRow(RWB, 1270, 1270, 10000, 10000),
     TxRow(RWB, 2200, 2200, 5000, 5000), TxRow(<<"X">>, 2200, 2200, 10000, 10000)}

(* rows with different rated voltages; some phase codes are malformed *)
StdRows ==
    {TxRow(conn, 2200, 1270, 10000, 2500) :
        conn \in {<<"R">>, <<"B", "R">>, RWB, <<"R", "X">>,
                  <<"X", "Y", "Z">>, <<>>, <<"R", "W", "B", "R">>}}

(* the rows the mvtx table is built from, and those of the lvtx table *)
MvtxRows ==
    RegRows \cup {r \in StdRows : r.Conn_Type \in {<<"R">>, <<"B", "R">>, RWB,
                                                   <<"R", "X">>}}
LvtxRows == {TxRow(RWB, 1270, 1270, 5000, 5000)} \cup StdRows

LinecodeRow(code, ph, a1, a2) ==
    [Linecode_ID |-> <<code, "-", ToString(ph), "ph">>, Phases |-> ph,
     Ampacity1 |-> a1, Ampacity2 |-> a2]

LineRow(ename, code, ph) ==
    [Element_Name |-> ename, Linecode |-> code, Phases |-> ph]

LoadRow(ph, cap, model) ==
    [phases |-> ph, tx_cap |-> cap, model |-> model]

(* a pool entry gives the profile of each kind of day; day d is of kind    *)
(* d % Len(entry).  A profile is its sequence of multipliers.              *)
PoolEntry(p0, p1) == <<p0, p1>>

ProfileOf(pool, k, d) == pool[k + 1][(d % Len(pool[k + 1])) + 1]

WithIds(rows) ==
    [k \in DOMAIN rows |-> [Substation_ID |-> ToString(k)] @@ rows[k]]

Base ==
    [present |-> TableNames,
     mv_net_txs |-> <<TxRow(RWB, 6600, 2200, 2000000, 2000000)>>,
     linecodes |-> <<LinecodeRow("a", 3, 300, 200)>>,
     lines |-> <<LineRow("line", "a", 3)>>,
     mvcaps |-> <<[phases |-> 3]>>,
     mvtx |-> <<TxRow(RWB, 1270, 1270, 10000, 10000)>>,
     lvtx |-> <<TxRow(<<"R", "W">>, 2200, 25, 2500, 2500)>>,
     lv_lines |-> <<[phases |-> 3]>>,
     lv_loads |-> <<LoadRow(1, 0, "fixed")>>,
     house_data |-> <<PoolEntry(<<1, 2>>, <<2, 1>>)>>,
     com_data |-> <<PoolEntry(<<1, 4>>, <<4, 1>>)>>,
     mt |-> [n \in 0..(Period - 1) |-> 0]]

(* every combination of present and absent tables *)
FamPresence == {[Base EXCEPT !.present = P] : P \in SUBSET TableNames}

(* the transformer tables *)
FamMvtx == {[Base EXCEPT !.mvtx = t] : t \in SeqsUpTo(MvtxRows, MaxRows)}
FamLvtx == {[Base EXCEPT !.lvtx = t] : t \in SeqsUpTo(LvtxRows, MaxRows)}
FamMvNetTx ==
    {[Base EXCEPT !.mv_net_txs = t] :
        t \in SeqsUpTo({TxRow(RWB, 6600, 2200, 2000000, 2000000),
                        TxRow(RWB, 2200, 2200, 2000000, 2000000)}, MaxRows)}

(* the loads, the commercial pool and the random sequence *)
LoadRows == {LoadRow(1, 0, "fixed"), LoadRow(3, 10, "fixed"), LoadRow(3, 13, "fixed")}

LowEntry == PoolEntry(<<1, 4>>, <<4, 1>>)      \* peak 4 on every day
MidEntry == PoolEntry(<<5, 1>>, <<1, 6>>)      \* peak 5 or 6
HighEntry == PoolEntry(<<7, 7>>, <<1, 7>>)     \* peak 7 on every day

MtSet == [0..(Period - 1) -> 0..(MaxPool - 1)]

FamLoads ==
    {[Base EXCEPT !.lv_loads = t, !.com_data = p, !.mt = m] :
        t \in SeqsUpTo(LoadRows, MaxRows),
        p \in {<<HighEntry, LowEntry>>, <<HighEntry>>},
        m \in MtSet}

FamPools ==
    {[Base EXCEPT !.lv_loads = <<r>>, !.com_data = p, !.mt = m] :
        r \in {LoadRow(3, 10, "fixed"), LoadRow(3, 13, "fixed")},
        p \in SeqsUpTo({LowEntry, MidEntry, HighEntry}, MaxPool) \ {<<>>},
        m \in MtSet}

(* residential loads over a residential pool of two profiles; the column    *)
(* 'model' of a load is what the record says of its status                  *)
FamRes ==
    {[Base EXCEPT !.lv_loads = t, !.house_data = <<LowEntry, MidEntry>>,
                  !.mt = m] :
        t \in SeqsUpTo({LoadRow(1, 0, "fixed"), LoadRow(1, 0, "disabled"),
                        LoadRow(3, 13, "disabled")}, MaxRows),
        m \in MtSet}

(* the line codes: the first ampacity above, below and equal to the second; *)
(* Linecode_ID is unique within the table                                   *)
LinecodeRows ==
    {LinecodeRow("a", 3, 300, 200), LinecodeRow("b", 3, 200, 300),
     LinecodeRow("a", 1, 100, 100)}

FamLinecodes ==
    {[Base EXCEPT !.linecodes = t] :
        t \in {u \in SeqsUpTo(LinecodeRows, MaxRows) :
                  \A a, b \in DOMAIN u : a # b => u[a] # u[b]}}

(* the MV lines: deletion markers in three letter cases, and a line whose   *)
(* line code is not in the linecodes table                                  *)
LineRows ==
    {LineRow("line", "a", 3), LineRow("line", "b", 3),
     LineRow("delete", "a", 3), LineRow("DELETE", "b", 3),
     LineRow("Delete", "zz", 3), LineRow("line", "zz", 3)}

FamLines ==
    {[Base EXCEPT !.lines = t,
                  !.linecodes = <<LinecodeRow("a", 3, 300, 200),
                                  LinecodeRow("b", 3, 200, 300)>>] :
        t \in SeqsUpTo(LineRows, MaxRows)}

(* one record with each well-formed phase code in both transformer tables *)
FamCodes ==
    {[Base EXCEPT !.mvtx = <<TxRow(c, 2200, 1270, 10000, 2500)>>,
                  !.lvtx = <<TxRow(c, 2200, 25, 2500, 2500)>>] :
        c \in permutations(Letters, 1) \cup permutations(Letters, 2)
              \cup permutations(Letters, 3)}

(* the optional tables: absent, present and empty, present with a row *)
FamOptional ==
    {[Base EXCEPT !.present = TableNames \ A, !.mvcaps = c, !.mvtx = t] :
        A \in SUBSET {"mvcaps", "mvtx"},
        c \in {<<>>, <<[phases |-> 3]>>},
        t \in {<<>>, <<TxRow(RWB, 1270, 1270, 10000, 10000)>>}}

Sources ==
    FamPresence \cup FamMvtx \cup FamLvtx \cup FamMvNetTx \cup FamLoads
    \cup FamPools \cup FamLinecodes \cup FamLines \cup FamCodes
    \cup FamOptional \cup FamRes

-----------------------------------------------------------------------------
(* Control flow of build_network *)

(* build_network with the MV lines emitted before the line codes *)
StagesLinesFirst ==
    <<"basic_opendss_actions", "voltage_source", "mv_net_tx", "connections",
      "line_codes", "capacitors", "mv_txs", "lv_tx", "lv_nets",
      "lv_load_mod", "print_selected_date", "other_opendss_commands">>

Stages ==
    <<"basic_opendss_actions", "voltage_source", "mv_net_tx", "line_codes",
      "connections", "capacitors", "mv_txs", "lv_tx", "lv_nets",
      "lv_load_mod", "print_selected_date", "other_opendss_commands">>

StageNo(m) == CHOOSE k \in DOMAIN Stages : Stages[k] = m

(* build_network with only the call of mv_txs wrapped *)
Swallowed_mv_txs_only == {"mv_txs"}

(* build_network with the call of lv_tx wrapped as well *)
Swallowed_with_lv_tx == {"capacitors", "mv_txs", "lv_tx"}

(* the two calls build_network wraps in try/except: pass *)
Swallowed == {"capacitors", "mv_txs"}

Methods == {Stages[k] : k \in DOMAIN Stages}

TypeOK ==
    /\ pc \in Methods \cup {"idle", "lv_load_row", "lv_load_sampling"}
    /\ top \in Methods \cup {"none", "build_network"}
    /\ err \in {"none", "KeyError", "IndexError", "TypeError"}
    /\ i \in Nat
    /\ session \in {1, 2}

Init ==
    /\ \E s \in Sources :
        /\ data = [present |-> s.present,
                   mv_net_txs |-> WithIds(s.mv_net_txs),
                   linecodes |-> s.linecodes,
                   lines |-> s.lines,
                   mvcaps |-> s.mvcaps,
                   mvtx |-> WithIds(s.mvtx),
                   lvtx |-> WithIds(s.lvtx),
                   lv_lines |-> s.lv_lines,
                   lv_loads |-> s.lv_loads]
        /\ house_data = s.house_data
        /\ com_data = s.com_data
        /\ mt = s.mt
        /\ gis_data = [MV_tx |-> [k \in DOMAIN s.mv_net_txs |->
                                     [DSSNAME |-> NoName]],
                       MV_lines |-> [k \in DOMAIN s.lines |->
                                        [DSSNAME |-> NoName, Ampacity |-> <<>>]],
                       MVLV_txs |-> [k \in DOMAIN s.lvtx |-> [DSSNAME |-> NoName]]]
    /\ rngpos = 0
    /\ pc = "idle"
    /\ top = "none"
    /\ arg = 0
    /\ i = 1
    /\ cmds = <<>>
    /\ daily = <<>>
    /\ err = "none"
    /\ selected_day = 0
    /\ load_profile = 0
    /\ draws = 0
    /\ ret = <<>>
    /\ session = 1
    /\ first = <<>>

-----------------------------------------------------------------------------
(* Calls, returns and exceptions *)

const == <<data, house_data, com_data, mt>>
callv == <<top, arg, session, first>>
loadv == <<rngpos, selected_day, load_profile, draws, ret, daily>>

(* where control goes when method m returns *)
After(m) ==
    IF top = "build_network" /\ StageNo(m) < Len(Stages)
    THEN Stages[StageNo(m) + 1]
    ELSE "idle"

Finish(m) == pc' = After(m) /\ i' = 1 /\ err' = err

(* method m raises e: build_network passes over it for the two wrapped calls *)
Raise(m, e) ==
    /\ i' = 1
    /\ IF top = "build_network" /\ m \in Swallowed
       THEN pc' = After(m) /\ err' = err
       ELSE pc' = "idle" /\ err' = e

Emit(s) == cmds' = cmds \o s

(* selected_day values a user passes to lv_load_mod (0: the default) *)
DayArgs == {0, 1, DaysInYear - 1, DaysInYear}

(* the user calls build_network or one of the stage methods on the driver;  *)
(* a behaviour is one such call on a newly constructed driver               *)
Call ==
    /\ pc = "idle"
    /\ top = "none"
    /\ \E m \in Methods \cup {"build_network"} :
        /\ top' = m
        /\ pc' = IF m = "build_network" THEN Stages[1] ELSE m
        /\ \E d \in DayArgs :
            /\ m # "lv_load_mod" => d = 0
            /\ arg' = d
    /\ i' = 1
    /\ cmds' = <<>>
    /\ daily' = <<>>
    /\ err' = "none"
    /\ ret' = <<>>
    /\ draws' = 0
    /\ selected_day' = 0
    /\ load_profile' = 0
    /\ UNCHANGED <<const, gis_data, rngpos, session, first>>

(* a second compile session in the same process: the same call, with the    *)
(* same arguments and tables, made again after the first has ended.  The    *)
(* state of np.random is the process's, so it is what the first left.       *)
Recall ==
    /\ pc = "idle"
    /\ top # "none"
    /\ session = 1
    /\ session' = 2
    /\ first' = cmds
    /\ pc' = IF top = "build_network" THEN Stages[1] ELSE top
    /\ i' = 1
    /\ cmds' = <<>>
    /\ daily' = <<>>
    /\ err' = "none"
    /\ ret' = <<>>
    /\ draws' = 0
    /\ selected_day' = 0
    /\ load_profile' = 0
    /\ UNCHANGED <<const, gis_data, rngpos, top, arg>>

-----------------------------------------------------------------------------
(* Stages without a table *)

basic_opendss_actions ==
    /\ pc = "basic_opendss_actions"
    /\ Emit(<<Cmd("basic_opendss_actions", "clear", NoName, 0),
              Cmd("basic_opendss_actions", "set_defaultbasefrequency", NoName, 0)>>)
    /\ Finish("basic_opendss_actions")
    /\ UNCHANGED <<const, callv, loadv, gis_data>>

voltage_source ==
    /\ pc = "voltage_source"
    /\ Emit(<<Cmd("voltage_source", "circuit", <<"circuit">>, 0),
              Cmd("voltage_source", "vsource", <<"source">>, 0)>>)
    /\ Finish("voltage_source")
    /\ UNCHANGED <<const, callv, loadv, gis_data>>

(* build_network calls print_selected_date() without its selected_day *)
print_selected_date ==
    /\ pc = "print_selected_date"
    /\ IF top = "build_network"
       THEN Raise("print_selected_date", "TypeError")
       ELSE Finish("print_selected_date")
    /\ UNCHANGED <<const, callv, loadv, gis_data, cmds>>

other_opendss_commands ==
    /\ pc = "other_opendss_commands"
    /\ Emit(<<Cmd("other_opendss_commands", "set_voltagebases", NoName, 0),
              Cmd("other_opendss_commands", "calcv", NoName, 0)>>)
    /\ Finish("other_opendss_commands")
    /\ UNCHANGED <<const, callv, loadv, gis_data>>

-----------------------------------------------------------------------------
(* MV transformers, line codes, MV lines, capacitors *)

mv_tx_data(row, n) ==
    [Cmd("mv_net_tx", "transformer", <<row.Substation_ID>>, n) EXCEPT
        !.phases = 3, !.windings = 2,
        !.conns = <<row.Connection_Primary, row.Connection_Secondary>>,
        !.kVs = <<row.kvs_primary, row.kvs_secondary>>,
        !.kVAs = <<row.kvas_primary, row.kvas_secondary>>]

mv_net_tx ==
    /\ pc = "mv_net_tx"
    /\ IF "mv_net_txs" \notin data.present
       THEN Raise("mv_net_tx", "KeyError") /\ UNCHANGED cmds
       ELSE IF i > Len(data.mv_net_txs)
       THEN Finish("mv_net_tx") /\ UNCHANGED cmds
       ELSE /\ Emit(<<mv_tx_data(data.mv_net_txs[i], i)>>)
            /\ i' = i + 1
            /\ UNCHANGED <<pc, err>>
    /\ UNCHANGED <<const, callv, loadv, gis_data>>

(* the line code rated at its first ampacity *)
linecode_data_first(row, n) ==
    [Cmd("line_codes", "linecode", <<"lc_">> \o row.Linecode_ID, n) EXCEPT
        !.phases = row.Phases,
        !.normamp = row.Ampacity1]

linecode_data(row, n) ==
    [Cmd("line_codes", "linecode", <<"lc_">> \o row.Linecode_ID, n) EXCEPT
        !.phases = row.Phases,
        !.normamp = Min(row.Ampacity1, row.Ampacity2)]

line_codes ==
    /\ pc = "line_codes"
    /\ IF "linecodes" \notin data.present
       THEN Raise("line_codes", "KeyError") /\ UNCHANGED cmds
       ELSE IF i > Len(data.linecodes)
       THEN Finish("line_codes") /\ UNCHANGED cmds
       ELSE /\ Emit(<<linecode_data(data.linecodes[i], i)>>)
            /\ i' = i + 1
            /\ UNCHANGED <<pc, err>>
    /\ UNCHANGED <<const, callv, loadv, gis_data>>

(* f"{row['Linecode']}-{row['Phases']}ph" *)
LinecodeRef(row) == <<row.Linecode, "-", ToString(row.Phases), "ph">>

mv_line_data(row, n) ==
    [Cmd("connections", "line", <<"mv_f0_l", ToString(n)>>, n) EXCEPT
        !.phases = row.Phases,
        !.ref = <<"lc_">> \o LinecodeRef(row)]

(* the Ampacity1 values of the linecodes rows whose Linecode_ID matches *)
AmpMatches(row) ==
    SelectSeq(data.linecodes, LAMBDA lc : lc.Linecode_ID = LinecodeRef(row))

connections ==
    /\ pc = "connections"
    /\ IF "lines" \notin data.present
       THEN Raise("connections", "KeyError") /\ UNCHANGED <<cmds, gis_data>>
       ELSE IF i > Len(data.lines)
       THEN Finish("connections") /\ UNCHANGED <<cmds, gis_data>>
       ELSE LET row == data.lines[i]
                named == [gis_data EXCEPT
                            !.MV_lines[i].DSSNAME = <<"mv_f0_l", ToString(i)>>]
            IN  IF Lower(row.Element_Name) = "delete"
                THEN /\ i' = i + 1
                     /\ UNCHANGED <<pc, err, cmds, gis_data>>
                ELSE /\ Emit(<<mv_line_data(row, i)>>)
                     /\ IF "linecodes" \notin data.present
                        THEN Raise("connections", "KeyError")
                               /\ gis_data' = named
                        ELSE IF AmpMatches(row) = <<>>
                        THEN Raise("connections", "IndexError")
                               /\ gis_data' = named
                        ELSE /\ gis_data' =
                                  [named EXCEPT !.MV_lines[i].Ampacity =
                                      <<AmpMatches(row)[1].Ampacity1>>]
                             /\ i' = i + 1
                             /\ UNCHANGED <<pc, err>>
    /\ UNCHANGED <<const, callv, loadv>>

mv_caps_data(row, n) ==
    [Cmd("capacitors", "capacitor", <<"mv_f0_l", ToString(n)>>, n) EXCEPT
        !.phases = row.phases]

capacitors ==
    /\ pc = "capacitors"
    /\ IF "mvcaps" \notin data.present
       THEN Raise("capacitors", "KeyError") /\ UNCHANGED cmds
       ELSE IF i > Len(data.mvcaps)
       THEN Finish("capacitors") /\ UNCHANGED cmds
       ELSE /\ Emit(<<mv_caps_data(data.mvcaps[i], i)>>)
            /\ i' = i + 1
            /\ UNCHANGED <<pc, err>>
    /\ UNCHANGED <<const, callv, loadv, gis_data>>

-----------------------------------------------------------------------------
(* MV autotransformers and regulators *)

Phases3 == <<"A", "B", "C">>

(* the three-winding transformer mv_txs writes when the voltages differ *)
mv_tx_split(row, n) ==
    [Cmd("mv_txs", "transformer", <<row.Substation_ID>>, n) EXCEPT
        !.phases = 1, !.windings = 3,
        !.suffix = char_to_num[row.Conn_Type],
        !.conns = <<"Delta", "Wye", "Wye">>,
        !.kVs = <<row.kvs_primary, row.kvs_secondary, row.kvs_secondary>>,
        !.kVAs = <<row.kvas_primary, row.kvas_secondary, row.kvas_secondary>>]

Reactor(row, n, phase, side) ==
    [Cmd("mv_txs", "reactor",
         <<"Jumper_", row.Substation_ID, "_", phase, side>>, n) EXCEPT
        !.phases = 1]

(* kva1 = row["kvs_primary"]; kVAtraf = np.round(nt * float(kva1) / (1 + nt), 2) *)
kVAtraf(row) == kVAtrafBy(row.kvs_primary)

reg_tx(row, n, phase) ==
    [Cmd("mv_txs", "transformer", <<row.Substation_ID, "_", phase>>, n) EXCEPT
        !.phases = 1, !.windings = 2,
        !.kVs = <<KvReg, KvReg \div 10>>,
        !.kVAs = <<kVAtraf(row), kVAtraf(row)>>,
        !.numtaps = row.wdg1_numtaps - 1]

reg_control(row, n, phase) ==
    [Cmd("mv_txs", "regcontrol", <<"Reg_", row.Substation_ID, "_", phase>>, n) EXCEPT
        !.windings = 2,
        !.ref = <<row.Substation_ID, "_", phase>>]

(* the else branch with the exit jumper of phase C named as its entry jumper *)
regulator_cmds_samename(row, n) ==
    <<Cmd("mv_txs", "set_maxcontroliter", NoName, n)>>
    \o <<Reactor(row, n, "A", "_E"), Reactor(row, n, "A", "_O"),
         Reactor(row, n, "B", "_E"), Reactor(row, n, "B", "_O"),
         Reactor(row, n, "C", "_E"), Reactor(row, n, "C", "_E")>>
    \o [k \in 1..3 |-> reg_tx(row, n, Phases3[k])]
    \o [k \in 1..3 |-> reg_control(row, n, Phases3[k])]

(* the else branch with the controls created before their transformers *)
regulator_cmds_controls_first(row, n) ==
    <<Cmd("mv_txs", "set_maxcontroliter", NoName, n)>>
    \o <<Reactor(row, n, "A", "_E"), Reactor(row, n, "A", "_O"),
         Reactor(row, n, "B", "_E"), Reactor(row, n, "B", "_O"),
         Reactor(row, n, "C", "_E"), Reactor(row, n, "C", "_O")>>
    \o [k \in 1..3 |-> reg_control(row, n, Phases3[k])]
    \o [k \in 1..3 |-> reg_tx(row, n, Phases3[k])]

(* the commands of the else branch, in the order they are submitted *)
regulator_cmds(row, n) ==
    <<Cmd("mv_txs", "set_maxcontroliter", NoName, n)>>
    \o <<Reactor(row, n, "A", "_E"), Reactor(row, n, "A", "_O"),
         Reactor(row, n, "B", "_E"), Reactor(row, n, "B", "_O"),
         Reactor(row, n, "C", "_E"), Reactor(row, n, "C", "_O")>>
    \o [k \in 1..3 |-> reg_tx(row, n, Phases3[k])]
    \o [k \in 1..3 |-> reg_control(row, n, Phases3[k])]

(* the test with >= in place of != *)
mv_txs_standard_ge(row) == row.kvs_primary >= row.kvs_secondary

(* kva1 != kva2 selects the three-winding transformer, else the regulator *)
mv_txs_standard(row) == row.kvs_primary # row.kvs_secondary

mv_txs ==
    /\ pc = "mv_txs"
    /\ IF "mvtx" \notin data.present
       THEN Raise("mv_txs", "KeyError") /\ UNCHANGED cmds
       ELSE IF i > Len(data.mvtx)
       THEN Finish("mv_txs") /\ UNCHANGED cmds
       ELSE LET row == data.mvtx[i] IN
            IF mv_txs_standard(row)
            THEN IF row.Conn_Type \notin DOMAIN char_to_num
                 THEN Raise("mv_txs", "KeyError") /\ UNCHANGED cmds
                 ELSE /\ Emit(<<mv_tx_split(row, i)>>)
                      /\ i' = i + 1
                      /\ UNCHANGED <<pc, err>>
            ELSE /\ Emit(regulator_cmds(row, i))
                 /\ i' = i + 1
                 /\ UNCHANGED <<pc, err>>
    /\ UNCHANGED <<const, callv, loadv, gis_data>>

-----------------------------------------------------------------------------
(* LV transformers and LV lines *)

(* the branches chosen from the length only when the voltages differ *)
lv_tx_branch_by_kv(row) ==
    IF Len(row.Conn_Type) = 3 /\ row.kvs_primary # row.kvs_secondary
    THEN "three_phase"
    ELSE IF Len(row.Conn_Type) = 2 THEN "split_phase"
    ELSE "single_phase"

(* the branches with the tests for two letters and for one letter exchanged *)
lv_tx_branch_swapped(row) ==
    IF Len(row.Conn_Type) = 3 THEN "three_phase"
    ELSE IF Len(row.Conn_Type) = 1 THEN "split_phase"
    ELSE "single_phase"

(* the table lv_tx builds for itself, from ['R','W','B'] for three letters  *)
(* and from ['R','B','W'] for two and for one                               *)
lv_tx_char_to_num ==
    [key \in permutations({"R", "W", "B"}, 3) \cup permutations({"R", "B", "W"}, 2)
              \cup permutations({"R", "B", "W"}, 1) |->
        [j \in 1..Len(key) |-> LetterNum[key[j]]]]

(* which of the three branches of lv_tx a row takes *)
lv_tx_branch(row) ==
    IF Len(row.Conn_Type) = 3 THEN "three_phase"
    ELSE IF Len(row.Conn_Type) = 2 THEN "split_phase"
    ELSE "single_phase"

lv_tx_name(row) == <<"mv_f0_lv_", row.Substation_ID>>

lv_tx_data(row, n) ==
    LET c == Cmd("lv_tx", "transformer", lv_tx_name(row), n) IN
    CASE lv_tx_branch(row) = "three_phase" ->
            [c EXCEPT !.phases = 3, !.windings = 2, !.numtaps = 4,
                !.conns = <<row.Connection_Primary, row.Connection_Secondary>>,
                !.kVs = <<row.kvs_primary, row.kvs_secondary>>,
                !.kVAs = <<row.kvas_primary, row.kvas_secondary>>]
      [] lv_tx_branch(row) = "split_phase" ->
            [c EXCEPT !.phases = 1, !.windings = 3, !.numtaps = 4,
                !.suffix = lv_tx_char_to_num[row.Conn_Type],
                !.conns = <<"Delta", "Wye", "Wye">>,
                !.kVs = <<2200, 25, 25>>,
                !.kVAs = <<row.kvas_primary, row.kvas_secondary,
                           row.kvas_secondary>>]
      [] OTHER ->
            [c EXCEPT !.phases = 1, !.windings = 2, !.numtaps = 4,
                !.suffix = lv_tx_char_to_num[row.Conn_Type],
                !.conns = <<"Wye", "Wye">>,
                !.kVs = <<row.kvs_primary, row.kvs_secondary>>,
                !.kVAs = <<row.kvas_primary, row.kvas_secondary>>]

(* the branches that look the phase code up in char_to_num *)
lv_tx_KeyError(row) ==
    /\ lv_tx_branch(row) # "three_phase"
    /\ row.Conn_Type \notin DOMAIN lv_tx_char_to_num

lv_tx ==
    /\ pc = "lv_tx"
    /\ IF "lvtx" \notin data.present
       THEN Raise("lv_tx", "KeyError") /\ UNCHANGED <<cmds, gis_data>>
       ELSE IF i > Len(data.lvtx)
       THEN Finish("lv_tx") /\ UNCHANGED <<cmds, gis_data>>
       ELSE LET row == data.lvtx[i] IN
            IF lv_tx_KeyError(row)
            THEN Raise("lv_tx", "KeyError") /\ UNCHANGED <<cmds, gis_data>>
            ELSE /\ Emit(<<lv_tx_data(row, i)>>)
                 /\ gis_data' = [gis_data EXCEPT
                                   !.MVLV_txs[i].DSSNAME = lv_tx_name(row)]
                 /\ i' = i + 1
                 /\ UNCHANGED <<pc, err>>
    /\ UNCHANGED <<const, callv, loadv>>

line_data(row, n) ==
    [Cmd("lv_nets", "line", <<"lv_line", ToString(n)>>, n) EXCEPT
        !.phases = row.phases,
        !.suffix = IF row.phases = 3 THEN <<1, 2, 3>> ELSE <<1>>]

lv_nets ==
    /\ pc = "lv_nets"
    /\ IF "lv_lines" \notin data.present
       THEN Raise("lv_nets", "KeyError") /\ UNCHANGED cmds
       ELSE IF i > Len(data.lv_lines)
       THEN Finish("lv_nets") /\ UNCHANGED cmds
       ELSE /\ Emit(<<line_data(data.lv_lines[i], i)>>)
            /\ i' = i + 1
            /\ UNCHANGED <<pc, err>>
    /\ UNCHANGED <<const, callv, loadv, gis_data>>

-----------------------------------------------------------------------------
(* Loads and their profiles *)

(* a draw that reads the first value of the sequence every time *)
randint_first(n) == mt[0] % n

(* np.random.randint(n): the next value of the sequence, brought into 0..n-1 *)
randint(n) == mt[rngpos] % n

(* a draw that takes two values of the sequence *)
Advance_twice == rngpos' = (rngpos + 2) % Period

Advance == rngpos' = (rngpos + 1) % Period

(* lv_load_mod run with its default day when the user calls it *)
CallArg_default == IF top = "lv_load_mod" THEN 0 ELSE arg

(* lv_load_mod is given a day only when the user calls it with one *)
CallArg == IF top = "lv_load_mod" THEN arg ELSE 0

load_name(n) == <<"load", ToString(n)>>

load_data(row, n) ==
    [Cmd("lv_load_mod", "load", load_name(n), n) EXCEPT
        !.phases = row.phases, !.status = row.model, !.enabled = TRUE]

(* the load shapes of a kind all given the identifier of the first *)
shape_name_shared(kind, n) == <<"Load_shape_", kind, "_", "0">>

shape_name(kind, n) == <<"Load_shape_", kind, "_", ToString(n - 1)>>

load_shape(kind, n, profile) ==
    [Cmd("lv_load_mod", "loadshape", shape_name(kind, n), n) EXCEPT
        !.pmult = profile]

(* the day axis of both pools has one entry per day of the year *)
DayInPool(d) == d \in 0..(DaysInYear - 1)

(* the test with <= in place of < *)
FeasibleOrEqual(profile, row) == 2 * MaxOf(profile) <= row.tx_cap

(* if load_max < row['tx_cap']/2: break *)
Feasible(profile, row) == 2 * MaxOf(profile) < row.tx_cap

Bind(kind, n, profile) ==
    /\ Emit(<<load_shape(kind, n, profile)>>)
    /\ daily' = Append(daily, [load |-> load_name(n), shape |-> shape_name(kind, n)])

lv_load_mod ==
    /\ pc = "lv_load_mod"
    /\ IF CallArg = 0
       THEN /\ selected_day' = mt[0] % DaysInYear
            /\ rngpos' = 1 % Period
       ELSE /\ selected_day' = CallArg
            /\ UNCHANGED rngpos
    /\ IF "lv_loads" \notin data.present
       THEN Raise("lv_load_mod", "KeyError")
       ELSE pc' = "lv_load_row" /\ i' = 1 /\ err' = err
    /\ UNCHANGED <<const, callv, gis_data, cmds, daily, load_profile, draws, ret>>

lv_load_row ==
    /\ pc = "lv_load_row"
    /\ IF i > Len(data.lv_loads)
       THEN /\ ret' = <<selected_day>>
            /\ Finish("lv_load_mod")
            /\ UNCHANGED <<cmds, daily, rngpos, load_profile, draws>>
       ELSE LET row == data.lv_loads[i] IN
            IF row.phases = 1
            THEN LET k == randint(Len(house_data)) IN
                 /\ Advance
                 /\ load_profile' = k
                 /\ draws' = 1
                 /\ IF DayInPool(selected_day)
                    THEN /\ cmds' = cmds \o
                               <<load_data(row, i),
                                 load_shape("res", i,
                                     ProfileOf(house_data, k, selected_day))>>
                         /\ daily' = Append(daily,
                               [load |-> load_name(i),
                                shape |-> shape_name("res", i)])
                         /\ i' = i + 1
                         /\ UNCHANGED <<pc, err>>
                    ELSE /\ Emit(<<load_data(row, i)>>)
                         /\ Raise("lv_load_mod", "IndexError")
                         /\ UNCHANGED daily
                 /\ UNCHANGED ret
            ELSE /\ Emit(<<load_data(row, i)>>)
                 /\ pc' = "lv_load_sampling"
                 /\ draws' = 0
                 /\ UNCHANGED <<i, err, daily, rngpos, load_profile, ret>>
    /\ UNCHANGED <<const, callv, gis_data, selected_day>>

(* one pass of the while True loop of a load with phases != 1 *)
lv_load_sampling ==
    /\ pc = "lv_load_sampling"
    /\ LET row == data.lv_loads[i]
           k == randint(Len(com_data))
       IN  /\ Advance
           /\ load_profile' = k
           /\ draws' = Min(draws + 1, MaxDraws)
           /\ IF ~DayInPool(selected_day)
              THEN Raise("lv_load_mod", "IndexError") /\ UNCHANGED <<cmds, daily>>
              ELSE IF Feasible(ProfileOf(com_data, k, selected_day), row)
              THEN /\ Bind("com", i, ProfileOf(com_data, k, selected_day))
                   /\ pc' = "lv_load_row"
                   /\ i' = i + 1
                   /\ err' = err
              ELSE UNCHANGED <<pc, i, err, cmds, daily>>
    /\ UNCHANGED <<const, callv, gis_data, selected_day, ret>>

-----------------------------------------------------------------------------

Next ==
    \/ Call
    \/ basic_opendss_actions
    \/ voltage_source
    \/ mv_net_tx
    \/ line_codes
    \/ connections
    \/ capacitors
    \/ mv_txs
    \/ lv_tx
    \/ lv_nets
    \/ lv_load_mod
    \/ lv_load_row
    \/ lv_load_sampling
    \/ print_selected_date
    \/ other_opendss_commands

Spec == Init /\ [][Next]_vars

(* the program is sequential: a method that can take its next step takes it *)
FairSpec == Spec /\ WF_vars(Next)

(* two compile sessions, one after the other, in one process *)
SessionNext ==
    \/ Call
    \/ Recall
    \/ basic_opendss_actions
    \/ voltage_source
    \/ mv_net_tx
    \/ line_codes
    \/ connections
    \/ capacitors
    \/ mv_txs
    \/ lv_tx
    \/ lv_nets
    \/ lv_load_mod
    \/ lv_load_row
    \/ lv_load_sampling
    \/ print_selected_date
    \/ other_opendss_commands

SessionSpec == Init /\ [][SessionNext]_vars

-----------------------------------------------------------------------------
(* Properties *)

TableOf(stage) ==
    CASE stage = "mv_net_tx" -> data.mv_net_txs
      [] stage = "mv_txs" -> data.mvtx
      [] stage = "lv_tx" -> data.lvtx

(* the table row a transformer-stage command was written for *)
RowOf(c) == TableOf(c.stage)[c.rec]

EqualKv(row) == row.kvs_primary = row.kvs_secondary

TxStages == {"mv_net_tx", "mv_txs", "lv_tx"}

(* a per-phase transformer of a regulator assembly is named <id>_<phase> *)
IsRegTx(c) ==
    /\ c.kind = "transformer"
    /\ \E ph \in {"A", "B", "C"} : c.name = <<RowOf(c).Substation_ID, "_", ph>>

IsRegulatorPart(c) ==
    c.kind \in {"set_maxcontroliter", "reactor", "regcontrol"} \/ IsRegTx(c)

(* a standard transformer: two-winding, split-phase or single-phase *)
IsStandardTx(c) == c.kind = "transformer" /\ ~IsRegTx(c)

(* the stage order the specification gives *)
C1_Rank(stage) ==
    CASE stage = "basic_opendss_actions" -> 1
      [] stage = "voltage_source" -> 2
      [] stage = "mv_net_tx" -> 3
      [] stage = "line_codes" -> 4
      [] stage = "connections" -> 5
      [] stage = "capacitors" -> 6
      [] stage = "mv_txs" -> 7
      [] stage = "lv_tx" -> 8
      [] stage = "lv_nets" -> 9
      [] stage = "lv_load_mod" -> 10
      [] stage = "other_opendss_commands" -> 11

(* C1: in a run of build_network the commands follow the fixed stage order: *)
(* no command of a stage is submitted after a command of a later stage, so  *)
(* line codes precede MV lines and MV lines precede LV transformers.        *)
C1_StageOrder ==
    top = "build_network" =>
        \A k \in 1..(Len(cmds) - 1) :
            C1_Rank(cmds[k].stage) <= C1_Rank(cmds[k + 1].stage)

(* a run of build_network that has submitted commands of all ten stages up  *)
(* to the loads                                                             *)
C1_Witness ==
    /\ top = "build_network"
    /\ \A r \in 1..10 : \E k \in DOMAIN cmds : C1_Rank(cmds[k].stage) = r

(* C2: once build_network has bound the last load's profile (lv_load_mod    *)
(* has returned) the compile runs to its end: it stops without an error and *)
(* the stream ends with the voltage-bases declaration and calcv.            *)
C2_RunsToCompletion ==
    (top = "build_network" /\ ret # <<>> /\ pc = "idle") =>
        /\ err = "none"
        /\ Len(cmds) >= 2
        /\ cmds[Len(cmds) - 1].kind = "set_voltagebases"
        /\ cmds[Len(cmds)].kind = "calcv"

(* C3: the profile bound to a load with phases != 1 has a peak strictly     *)
(* below half of the load's tx_cap (with tx_cap = 10, a peak below 5).      *)
C3_PeakBelowHalfCap ==
    \A k \in DOMAIN cmds :
        (cmds[k].kind = "loadshape" /\ data.lv_loads[cmds[k].rec].phases # 1) =>
            /\ 2 * MaxOf(cmds[k].pmult) < data.lv_loads[cmds[k].rec].tx_cap
            /\ data.lv_loads[cmds[k].rec].tx_cap = 10 => MaxOf(cmds[k].pmult) < 5

(* a load with tx_cap = 10 is bound after at least one rejected draw *)
C3_Witness ==
    /\ pc = "lv_load_row"
    /\ draws >= 2
    /\ cmds # <<>>
    /\ cmds[Len(cmds)].kind = "loadshape"
    /\ data.lv_loads[cmds[Len(cmds)].rec].phases = 3
    /\ data.lv_loads[cmds[Len(cmds)].rec].tx_cap = 10

(* C4: the feasibility retry is bounded: a load that is being sampled is    *)
(* left after finitely many draws, the method returning or failing.         *)
C4_RetryTerminates == (pc = "lv_load_sampling") ~> (pc # "lv_load_sampling")

-----------------------------------------------------------------------------
(* Topology variants *)

Variant(c) ==
    IF IsRegulatorPart(c) THEN "regulator"
    ELSE IF c.phases = 3 /\ c.windings = 2 THEN "three_phase"
    ELSE IF c.phases = 1 /\ c.windings = 3 THEN "split_phase"
    ELSE IF c.phases = 1 /\ c.windings = 2 THEN "single_phase"
    ELSE "other"

(* the variants among the commands written for row n of a stage's table *)
VariantsOf(stage, n) ==
    {Variant(cmds[k]) :
        k \in {j \in DOMAIN cmds : cmds[j].stage = stage /\ cmds[j].rec = n}}

CountOf(stage, n) ==
    Cardinality({j \in DOMAIN cmds : cmds[j].stage = stage /\ cmds[j].rec = n})

SelStages == {"mv_txs", "lv_tx"}

(* the two attributes the specification lets the choice depend on *)
SameSelectors(r1, r2) ==
    /\ EqualKv(r1) = EqualKv(r2)
    /\ ~EqualKv(r1) => Len(r1.Conn_Type) = Len(r2.Conn_Type)

(* the rows the running loop has gone past *)
Passed(stage, n) == pc = stage /\ n < i

ByLength(len) ==
    CASE len = 3 -> "three_phase"
      [] len = 2 -> "split_phase"
      [] len = 1 -> "single_phase"
      [] OTHER -> "none"

SplitShape(c) ==
    Variant(c) = "split_phase" => c.conns = <<"Delta", "Wye", "Wye">>

-----------------------------------------------------------------------------
(* Regulator assemblies *)

(* the components (not the settings) written for row n of mvtx, in order *)
Components(n) ==
    SelectSeq(cmds, LAMBDA c : /\ c.stage = "mv_txs"
                               /\ c.rec = n
                               /\ c.kind # "set_maxcontroliter")

KindName(c) == <<c.kind, c.name>>

Jumper(id, ph, side) == <<"reactor", <<"Jumper_", id, "_", ph, side>>>>
RegTx(id, ph) == <<"transformer", <<id, "_", ph>>>>
RegCtl(id, ph) == <<"regcontrol", <<"Reg_", id, "_", ph>>>>

(* the equal-voltage rows of mvtx for which commands were written *)
RegulatorRows ==
    {n \in DOMAIN data.mvtx :
        EqualKv(data.mvtx[n]) /\ VariantsOf("mv_txs", n) # {}}

(* C8: an equal-voltage record of mvtx gets exactly 12 components: for each *)
(* phase one entry jumper, one exit jumper, one transformer and one control,*)
(* with pairwise distinct names, and nothing else.                          *)
C8_TwelveComponents ==
    \A n \in RegulatorRows :
        LET S == Components(n)
            id == data.mvtx[n].Substation_ID
            One(kn) == Cardinality({k \in DOMAIN S : KindName(S[k]) = kn}) = 1
        IN  /\ Len(S) = 12
            /\ Cardinality({S[k].name : k \in DOMAIN S}) = 12
            /\ \A ph \in {"A", "B", "C"} :
                /\ One(Jumper(id, ph, "_E"))
                /\ One(Jumper(id, ph, "_O"))
                /\ One(RegTx(id, ph))
                /\ One(RegCtl(id, ph))

C8_Witness == pc = "mv_txs" /\ Cardinality(RegulatorRows) >= 2

PhaseMajor(id) ==
    <<Jumper(id, "A", "_E"), Jumper(id, "A", "_O"), RegTx(id, "A"), RegCtl(id, "A"),
      Jumper(id, "B", "_E"), Jumper(id, "B", "_O"), RegTx(id, "B"), RegCtl(id, "B"),
      Jumper(id, "C", "_E"), Jumper(id, "C", "_O"), RegTx(id, "C"), RegCtl(id, "C")>>

KindMajor(id) ==
    <<Jumper(id, "A", "_E"), Jumper(id, "A", "_O"),
      Jumper(id, "B", "_E"), Jumper(id, "B", "_O"),
      Jumper(id, "C", "_E"), Jumper(id, "C", "_O"),
      RegTx(id, "A"), RegTx(id, "B"), RegTx(id, "C"),
      RegCtl(id, "A"), RegCtl(id, "B"), RegCtl(id, "C")>>

Order(n) == LET S == Components(n) IN [k \in DOMAIN S |-> KindName(S[k])]

(* C9 as stated: the assembly is emitted phase by phase, the four           *)
(* components of a phase before any component of the next phase.            *)
C9_PhaseByPhase ==
    \A n \in RegulatorRows : Order(n) = PhaseMajor(data.mvtx[n].Substation_ID)

(* C9: the assembly is emitted kind by kind: the entry and exit jumpers of  *)
(* A, B, C, then the transformers of A, B, C, then the controls of A, B, C; *)
(* so each control follows the transformer it references.                   *)
C9_KindByKind ==
    \A n \in RegulatorRows :
        LET S == Components(n) IN
        /\ Order(n) = KindMajor(data.mvtx[n].Substation_ID)
        /\ \A a \in DOMAIN S :
            S[a].kind = "regcontrol" =>
                \E b \in 1..(a - 1) :
                    S[b].kind = "transformer" /\ S[b].name = S[a].ref

C9_Witness ==
    /\ RegulatorRows # {}
    /\ \E k \in DOMAIN cmds : cmds[k].kind = "regcontrol" /\ cmds[k].ref # NoName

(* C10: the kVA of both windings of a regulator transformer is               *)
(* round(0.10 / 1.10 * kvas_primary, 2).                                    *)
C10_KvaFromPrimaryCapacity ==
    \A k \in DOMAIN cmds :
        (cmds[k].stage = "mv_txs" /\ IsRegTx(cmds[k])) =>
            cmds[k].kVAs = <<kVAtrafBy(RowOf(cmds[k]).kvas_primary),
                             kVAtrafBy(RowOf(cmds[k]).kvas_primary)>>

-----------------------------------------------------------------------------
(* Line codes and MV lines *)

(* the smaller of the two directional ampacities of a line-code record *)
Smaller(row) ==
    IF row.Ampacity2 < row.Ampacity1 THEN row.Ampacity2 ELSE row.Ampacity1

LinecodeCmds == {k \in DOMAIN cmds : cmds[k].kind = "linecode"}
MvLineCmds == {k \in DOMAIN cmds : cmds[k].stage = "connections"}

(* C11: the normamp of every emitted line code is the smaller of Ampacity1  *)
(* and Ampacity2 of its record, so a line that references an emitted line   *)
(* code is rated at the smaller of the two.                                 *)
C11_NormampIsMin ==
    /\ \A k \in LinecodeCmds :
          cmds[k].normamp = Smaller(data.linecodes[cmds[k].rec])
    /\ \A k \in MvLineCmds : \A j \in LinecodeCmds :
          cmds[j].name = cmds[k].ref =>
              /\ cmds[j].normamp <= data.linecodes[cmds[j].rec].Ampacity1
              /\ cmds[j].normamp <= data.linecodes[cmds[j].rec].Ampacity2

(* line codes with the first ampacity above and below the second have been  *)
(* emitted, and a line that references one of them                          *)
C11_Witness ==
    /\ \E j \in LinecodeCmds :
          data.linecodes[cmds[j].rec].Ampacity1 < data.linecodes[cmds[j].rec].Ampacity2
    /\ \E j \in LinecodeCmds :
          /\ data.linecodes[cmds[j].rec].Ampacity2 < data.linecodes[cmds[j].rec].Ampacity1
          /\ \E k \in MvLineCmds : cmds[k].ref = cmds[j].name

(* C12: the Ampacity written to the MV_lines entry of an emitted line is    *)
(* the smaller of Ampacity1 and Ampacity2 of the line-code row the line     *)
(* resolves to.                                                             *)
C12_GisAmpacityIsMin ==
    \A n \in DOMAIN data.lines :
        gis_data.MV_lines[n].Ampacity # <<>> =>
            \E m \in DOMAIN data.linecodes :
                /\ data.linecodes[m].Linecode_ID = LinecodeRef(data.lines[n])
                /\ gis_data.MV_lines[n].Ampacity = <<Smaller(data.linecodes[m])>>

(* 'delete' in any letter case *)
IsDeleteName(name) == name \in {"delete", "DELETE", "Delete"}

LineCount(n) == Cardinality({k \in MvLineCmds : cmds[k].rec = n})

(* connections has returned *)
ConnectionsReturned ==
    \/ top = "connections" /\ pc = "idle" /\ err = "none"
    \/ top = "build_network" /\ pc \in {"capacitors", "mv_txs", "lv_tx", "lv_nets"}

(* C13: a line record named 'delete' in any letter case is never emitted    *)
(* and its MV_lines entry gets no DSSNAME and no Ampacity; every other line *)
(* record is emitted at most once, and exactly once when the loop of        *)
(* connections has gone past it.                                            *)
C13_DeleteNeverEmitted ==
    \A n \in DOMAIN data.lines :
        /\ IsDeleteName(data.lines[n].Element_Name) =>
              /\ LineCount(n) = 0
              /\ gis_data.MV_lines[n].DSSNAME = NoName
              /\ gis_data.MV_lines[n].Ampacity = <<>>
        /\ LineCount(n) <= 1
        /\ (/\ ~IsDeleteName(data.lines[n].Element_Name)
            /\ "lines" \in data.present
            /\ Passed("connections", n) \/ ConnectionsReturned)
           => LineCount(n) = 1

(* connections has returned after a deletion marker in capitals followed by *)
(* a line that was emitted                                                  *)
C13_Witness ==
    /\ ConnectionsReturned
    /\ \E n1, n2 \in DOMAIN data.lines :
          /\ n1 < n2
          /\ data.lines[n1].Element_Name \in {"DELETE", "Delete"}
          /\ LineCount(n2) = 1

-----------------------------------------------------------------------------
(* Phase codes *)

(* the permutations of 1, 2 and 3 distinct letters of R, W, B *)
AllCodes ==
    {<<"R">>, <<"W">>, <<"B">>,
     <<"R", "W">>, <<"R", "B">>, <<"W", "R">>, <<"W", "B">>, <<"B", "R">>,
     <<"B", "W">>,
     <<"R", "W", "B">>, <<"R", "B", "W">>, <<"W", "R", "B">>, <<"W", "B", "R">>,
     <<"B", "R", "W">>, <<"B", "W", "R">>}

PhaseIndex(c) == CASE c = "R" -> 1 [] c = "W" -> 2 [] c = "B" -> 3

Encode(code) == [j \in 1..Len(code) |-> PhaseIndex(code[j])]

PhaseLetter(d) == CASE d = 1 -> "R" [] d = 2 -> "W" [] d = 3 -> "B"

Decode(suffix) == [j \in 1..Len(suffix) |-> PhaseLetter(suffix[j])]

(* the transformer commands whose suffix was looked up in a table *)
SuffixCmds ==
    {k \in DOMAIN cmds : cmds[k].stage \in SelStages /\ cmds[k].suffix # <<>>}

(* the table of mv_txs against the permutations and their indices, and      *)
(* against the table of lv_tx                                               *)
TableIsComplete ==
    /\ DOMAIN char_to_num = AllCodes
    /\ \A code \in AllCodes : char_to_num[code] = Encode(code)
    /\ char_to_num[<<"R", "B">>] = <<1, 3>>
    /\ char_to_num[<<"B", "R">>] = <<3, 1>>
    /\ char_to_num[<<"W">>] = <<2>>
    /\ lv_tx_char_to_num = char_to_num

(* both tables decoded entry by entry *)
TablesRoundTrip ==
    /\ \A code \in DOMAIN char_to_num : Decode(char_to_num[code]) = code
    /\ \A code \in DOMAIN lv_tx_char_to_num :
          Decode(lv_tx_char_to_num[code]) = code
    /\ \A c1, c2 \in DOMAIN char_to_num :
          char_to_num[c1] = char_to_num[c2] => c1 = c2

(* C14: the table has an entry for every permutation of 1, 2 and 3 letters  *)
(* of R, W, B; the entry is the sequence of the letters' indices under      *)
(* R->1, W->2, B->3 in the order of the letters (RB -> 1.3, BR -> 3.1,      *)
(* W -> 2); mv_txs and lv_tx build the same table, and every suffix they    *)
(* emit is the entry of the record's code.                                  *)
C14_TableOfPermutations ==
    /\ TableIsComplete
    /\ \A k \in SuffixCmds : cmds[k].suffix = Encode(RowOf(cmds[k]).Conn_Type)

(* mv_txs and lv_tx have each emitted the suffix 3.1 for a record BR *)
C14_Witness ==
    \E a, b \in SuffixCmds :
        /\ cmds[a].stage = "mv_txs" /\ cmds[b].stage = "lv_tx"
        /\ RowOf(cmds[a]).Conn_Type = <<"B", "R">>
        /\ RowOf(cmds[b]).Conn_Type = <<"B", "R">>
        /\ cmds[a].suffix = <<3, 1>> /\ cmds[b].suffix = <<3, 1>>

(* C15: decoding the suffix of a code (1->R, 2->W, 3->B) gives the code     *)
(* back, in both tables and for every emitted suffix; no two codes have the *)
(* same suffix.                                                             *)
C15_RoundTrip ==
    /\ TablesRoundTrip
    /\ \A k \in SuffixCmds : Decode(cmds[k].suffix) = RowOf(cmds[k]).Conn_Type

(* a stage has emitted the suffixes of two records with different codes *)
C15_Witness ==
    \E a, b \in SuffixCmds :
        /\ cmds[a].stage = cmds[b].stage
        /\ RowOf(cmds[a]).Conn_Type # RowOf(cmds[b]).Conn_Type
        /\ cmds[a].suffix # cmds[b].suffix

(* C16: a transformer record whose Conn_Type is not a permutation of 1 to 3 *)
(* letters of R, W, B is rejected: mv_txs and lv_tx emit no command for it, *)
(* whichever branch the record takes.                                       *)
C16_MalformedNeverEmitted ==
    \A k \in DOMAIN cmds :
        cmds[k].stage \in SelStages => RowOf(cmds[k]).Conn_Type \in AllCodes

(* the present transformer tables that hold a record with a malformed code *)
MalformedStages ==
    {st \in SelStages :
        /\ (IF st = "mv_txs" THEN "mvtx" ELSE "lvtx") \in data.present
        /\ \E n \in DOMAIN TableOf(st) : TableOf(st)[n].Conn_Type \notin AllCodes}

(* C17: in a run of build_network a malformed Conn_Type in the mvtx or in   *)
(* the lvtx table aborts the compile: no command of a stage after the       *)
(* table's stage is submitted.                                              *)
C17_MalformedAborts ==
    top = "build_network" =>
        \A st \in MalformedStages : \A k \in DOMAIN cmds :
            C1_Rank(cmds[k].stage) <= C1_Rank(st)

-----------------------------------------------------------------------------
(* Absent tables *)

OptionalStages == {"capacitors", "mv_txs"}

OptionalTable(st) == IF st = "capacitors" THEN "mvcaps" ELSE "mvtx"

OptionalRows(st) == IF st = "capacitors" THEN data.mvcaps ELSE data.mvtx

StageAfter(st) == IF st = "capacitors" THEN "mv_txs" ELSE "lv_tx"

(* C18: in a run of build_network an absent mvcaps or mvtx table gives no   *)
(* command of its stage and no error; the stage is passed over with the     *)
(* step a present, empty table gives: control goes to the next stage and    *)
(* nothing else changes, so the command streams of the two runs are equal.  *)
C18_AbsentOptionalSkipped ==
    /\ [](top = "build_network" =>
            \A st \in OptionalStages :
                OptionalTable(st) \notin data.present =>
                    \A k \in DOMAIN cmds : cmds[k].stage # st)
    /\ [][\A st \in OptionalStages :
            (/\ top = "build_network"
             /\ pc = st
             /\ \/ OptionalTable(st) \notin data.present
                \/ OptionalRows(st) = <<>>)
            => /\ pc' = StageAfter(st)
               /\ err = "none" /\ err' = "none"
               /\ i' = 1
               /\ UNCHANGED <<cmds, gis_data, daily, ret, rngpos, callv, const>>]_vars

(* build_network has reached the LV transformers without the two optional   *)
(* tables                                                                   *)
C18_Witness ==
    /\ top = "build_network"
    /\ "mvcaps" \notin data.present
    /\ "mvtx" \notin data.present
    /\ err = "none"
    /\ \E k \in DOMAIN cmds : cmds[k].stage = "lv_tx"

RequiredTables ==
    {"mv_net_txs", "linecodes", "lines", "lvtx", "lv_lines", "lv_loads"}

RequiredStage(t) ==
    CASE t = "mv_net_txs" -> "mv_net_tx"
      [] t = "linecodes" -> "line_codes"
      [] t = "lines" -> "connections"
      [] t = "lvtx" -> "lv_tx"
      [] t = "lv_lines" -> "lv_nets"
      [] t = "lv_loads" -> "lv_load_mod"

(* how far build_network has come *)
RunningRank ==
    CASE pc = "idle" -> 0
      [] pc \in {"lv_load_row", "lv_load_sampling"} -> 10
      [] pc \in {"print_selected_date", "other_opendss_commands"} -> 11
      [] OTHER -> C1_Rank(pc)

(* C19: in a run of build_network an absent required table is fatal: the    *)
(* run ends with an error at the stage that reads the table, and no command *)
(* of that stage or of a later stage is submitted.                          *)
C19_MissingRequiredFatal ==
    top = "build_network" =>
        \A t \in RequiredTables \ data.present :
            /\ \A k \in DOMAIN cmds :
                  C1_Rank(cmds[k].stage) < C1_Rank(RequiredStage(t))
            /\ RunningRank <= C1_Rank(RequiredStage(t))
            /\ pc = "idle" => err = "KeyError"

(* build_network has ended at lv_tx, the lvtx table being the only absent   *)
(* one, after the stages before it were run                                 *)
C19_Witness ==
    /\ top = "build_network"
    /\ TableNames \ data.present = {"lvtx"}
    /\ pc = "idle"
    /\ err = "KeyError"
    /\ cmds # <<>>
    /\ cmds[Len(cmds)].stage = "mv_txs"

-----------------------------------------------------------------------------
(* Reproducibility *)

(* C20: two sessions that make the same call with the same day and tables,  *)
(* one after the other in one process, submit the same command stream.      *)
C20_SessionsIdentical ==
    (session = 2 /\ pc = "idle") => cmds = first

-----------------------------------------------------------------------------
(* Loads *)

InLoadLoop == pc \in {"lv_load_row", "lv_load_sampling"}

(* the pool a load takes its profile from *)
PoolOf(n) == IF data.lv_loads[n].phases = 1 THEN house_data ELSE com_data

(* C21: for a load with phases = 1 lv_load_mod makes exactly one draw from  *)
(* the residential pool and binds the drawn profile in the same step: it    *)
(* checks nothing, rejects nothing and never enters the retry loop.         *)
C21_ResidentialOneDraw ==
    [][(/\ pc = "lv_load_row"
        /\ i <= Len(data.lv_loads)
        /\ data.lv_loads[i].phases = 1)
       => /\ rngpos' = (rngpos + 1) % Period
          /\ draws' = 1
          /\ pc' # "lv_load_sampling"
          /\ load_profile' = mt[rngpos] % Len(house_data)
          /\ DayInPool(selected_day) =>
                /\ i' = i + 1
                /\ Len(cmds') = Len(cmds) + 2
                /\ cmds'[Len(cmds')].kind = "loadshape"
                /\ cmds'[Len(cmds')].rec = i
                /\ cmds'[Len(cmds')].pmult =
                      ProfileOf(house_data, mt[rngpos] % Len(house_data),
                                selected_day)]_vars

(* a residential load has been bound to the second profile of a pool of two *)
C21_Witness ==
    /\ pc = "lv_load_row"
    /\ Len(house_data) = 2
    /\ load_profile = 1
    /\ draws = 1
    /\ cmds # <<>>
    /\ cmds[Len(cmds)].kind = "loadshape"
    /\ data.lv_loads[cmds[Len(cmds)].rec].phases = 1

(* the day of the session: the explicit day, else the first value drawn     *)
(* after the seed, over [0, 365)                                            *)
SessionDay ==
    IF top = "lv_load_mod" /\ arg # 0 THEN arg ELSE mt[0] % 365

ShapeCmds == {k \in DOMAIN cmds : cmds[k].kind = "loadshape"}

(* C22: the day index is fixed before the first load (the explicit day, or  *)
(* one draw over [0, 365)), is not changed while loads are processed, every *)
(* bound profile is a profile of that day, and lv_load_mod returns it.      *)
C22_SharedDay ==
    /\ [](InLoadLoop =>
            /\ selected_day = SessionDay
            /\ arg = 0 => selected_day \in 0..364)
    /\ [](\A k \in ShapeCmds :
            \E j \in 0..(Len(PoolOf(cmds[k].rec)) - 1) :
                cmds[k].pmult = ProfileOf(PoolOf(cmds[k].rec), j, selected_day))
    /\ [](ret # <<>> => ret = <<SessionDay>>)
    /\ [][InLoadLoop => selected_day' = selected_day]_vars

(* lv_load_mod has returned the explicit day after binding two loads *)
C22_Witness ==
    /\ top = "lv_load_mod"
    /\ arg = 1
    /\ ret = <<1>>
    /\ Cardinality(ShapeCmds) = 2

LoadsOf(n) == {k \in DOMAIN cmds : cmds[k].kind = "load" /\ cmds[k].rec = n}
ShapesOf(n) == {k \in ShapeCmds : cmds[k].rec = n}
DailyOf(n) == {d \in DOMAIN daily : daily[d].load = <<"load", ToString(n)>>}

(* the loop of lv_load_mod has gone past load n *)
LoadDone(n) == (InLoadLoop /\ n < i) \/ ret # <<>>

(* C23: each load is sampled and bound once: its definition is emitted,     *)
(* then exactly one load shape whose identifier no other load's shape has,  *)
(* then its 'daily' property is set to that identifier; a rejected draw     *)
(* emits nothing and the loop never goes back to a bound load.              *)
C23_BoundOnce ==
    /\ [](\A n \in DOMAIN data.lv_loads :
            /\ Cardinality(LoadsOf(n)) <= 1
            /\ Cardinality(ShapesOf(n)) <= 1
            /\ Cardinality(DailyOf(n)) <= Cardinality(ShapesOf(n))
            /\ \A k \in ShapesOf(n) :
                  /\ \E j \in LoadsOf(n) : j < k
                  /\ \A m \in DOMAIN data.lv_loads : \A k2 \in ShapesOf(m) :
                        cmds[k2].name = cmds[k].name => m = n
            /\ LoadDone(n) =>
                  /\ Cardinality(LoadsOf(n)) = 1
                  /\ Cardinality(ShapesOf(n)) = 1
                  /\ \E d \in DailyOf(n) : \E k \in ShapesOf(n) :
                        daily[d].shape = cmds[k].name)
    /\ [][(pc = "lv_load_sampling" /\ pc' = "lv_load_sampling")
            => cmds' = cmds /\ daily' = daily /\ i' = i]_vars
    /\ [][(InLoadLoop /\ InLoadLoop') => i' >= i]_vars

(* lv_load_mod has returned after binding two loads, the last one after a   *)
(* rejected draw                                                            *)
C23_Witness ==
    /\ ret # <<>>
    /\ Len(daily) = 2
    /\ draws >= 2
    /\ cmds[Len(cmds)].name = <<"Load_shape_", "com", "_", "1">>

(* C24: the emitted load definition is disabled when the record's status    *)
(* marks the load as out of service, and enabled otherwise.                 *)
C24_EnabledByStatus ==
    \A k \in DOMAIN cmds :
        cmds[k].kind = "load" =>
            cmds[k].enabled = (data.lv_loads[cmds[k].rec].model # "disabled")

(* the Geo Layer that holds the entries of a stage's records *)
GeoLayer(stage) ==
    CASE stage = "mv_net_tx" -> "MV_tx"
      [] stage = "connections" -> "MV_lines"
      [] stage = "lv_tx" -> "MVLV_txs"
      [] OTHER -> "none"

(* C25: every emitted line and transformer (mv_net_tx, mv_txs, lv_tx,       *)
(* connections, lv_nets) has the DSSNAME of its Geo Layer entry set to the  *)
(* name used in its command.                                                *)
C25_EveryEmittedAnnotated ==
    \A k \in DOMAIN cmds :
        cmds[k].kind \in {"line", "transformer"} =>
            /\ GeoLayer(cmds[k].stage) \in DOMAIN gis_data
            /\ gis_data[GeoLayer(cmds[k].stage)][cmds[k].rec].DSSNAME = cmds[k].name

(* every profile of the commercial pool comes up again and again in the     *)
(* sequence of draws                                                        *)
FairDraws ==
    \A k \in 0..(Len(com_data) - 1) :
        \E p \in 0..(Period - 1) : mt[p] % Len(com_data) = k

(* a profile of the pool at the selected day has its peak below tx_cap/2 *)
FeasibleExists(n) ==
    /\ n \in DOMAIN data.lv_loads
    /\ selected_day \in 0..364
    /\ \E k \in 0..(Len(com_data) - 1) :
          2 * MaxOf(ProfileOf(com_data, k, selected_day)) < data.lv_loads[n].tx_cap

(* C26: under fair draws a load with phases != 1 that is being sampled and  *)
(* has a feasible profile in the pool at the selected day is eventually     *)
(* bound, and lv_load_mod goes on to the next load.                         *)
C26_FeasibleEventuallyBound ==
    \A n \in 1..MaxRows :
        (pc = "lv_load_sampling" /\ i = n /\ FairDraws /\ FeasibleExists(n))
        ~> (pc = "lv_load_row" /\ i = n + 1 /\ ShapesOf(n) # {})

(* under fair draws a load has been bound after a rejected draw *)
C26_Witness ==
    /\ pc = "lv_load_row"
    /\ FairDraws
    /\ Len(com_data) >= 2
    /\ draws >= 2
    /\ i >= 2
    /\ ShapesOf(i - 1) # {}
    /\ data.lv_loads[i - 1].phases # 1

(* C27: an explicit day d in 1..365 is used as the day, and the index the   *)
(* pools are read at lies in 0..364, so the profile lookup does not fail.   *)
C27_OverrideInRange ==
    (top = "lv_load_mod" /\ arg \in 1..365) =>
        /\ InLoadLoop => selected_day \in 0..364
        /\ err # "IndexError"

(* C28: a transformer emitted by lv_tx or by the standard path of mv_txs    *)
(* has the record's kvs_primary and kvs_secondary as winding voltages and   *)
(* kvas_primary and kvas_secondary as capacities, in every variant.         *)
C28_RatingsMappedDirectly ==
    \A k \in DOMAIN cmds :
        (cmds[k].stage \in SelStages /\ IsStandardTx(cmds[k])) =>
            LET row == RowOf(cmds[k]) IN
            /\ cmds[k].kVs[1] = row.kvs_primary
            /\ cmds[k].kVAs[1] = row.kvas_primary
            /\ \A w \in 2..cmds[k].windings :
                  /\ cmds[k].kVs[w] = row.kvs_secondary
                  /\ cmds[k].kVAs[w] = row.kvas_secondary

(* a row of the linecodes table has the Linecode_ID the line refers to *)
Resolves(line) ==
    /\ "linecodes" \in data.present
    /\ \E m \in DOMAIN data.linecodes :
          data.linecodes[m].Linecode_ID =
              <<line.Linecode, "-", ToString(line.Phases), "ph">>

(* C29: connections submits a line command and writes a Geo Layer entry     *)
(* only for a line whose line code is in the linecodes table.               *)
C29_OnlyResolvedLinesEmitted ==
    \A n \in DOMAIN data.lines :
        (LineCount(n) > 0 \/ gis_data.MV_lines[n].DSSNAME # NoName)
            => Resolves(data.lines[n])

====
